---- MODULE Spec2Model ----
(***************************************************************************)
(* Model of preprocessing/automate_jesika.py: the heart-failure data       *)
(* preparation script (load_data, handle_outliers, preprocess_data,        *)
(* save_prepared_data and the __main__ block).                             *)
(*                                                                         *)
(* Data representation                                                     *)
(*   DataFrame : [none, cols, index, rows]; rows[i] = [rid, v] where v is  *)
(*               the function column name -> value and rid is a ghost      *)
(*               record identity (the subject the row was read from).      *)
(*   Series    : [index, rows]; rows[i] = [rid, val].                      *)
(*   File      : [exists, readable, cols, rows] (a CSV file has no index). *)
(*   Numbers are integers (fixed point); NaN is the value NaN below.       *)
(*   Quartiles are kept as 4*Q and the bounds as 8*bound, so that the      *)
(*   linear interpolation of pandas' quantile is exact.                    *)
(*   A standardized value (x - mean)/scale is kept as the exact pair       *)
(*   [num, den2] meaning num / sqrt(den2).                                 *)
(***************************************************************************)
EXTENDS Integers, Sequences, FiniteSets, TLC

VARIABLES pc, raw, fsRaw, fsTrain, fsTest, df, df_clean, X, y, split,
          trace, written, hist

vars == <<pc, raw, fsRaw, fsTrain, fsTest, df, df_clean, X, y, split,
          trace, written, hist>>

(* ------------------------------ bounds -------------------------------- *)
MaxRows == 6
RunRows == 2
MaxRuns == 2
MaxLen == 4
AgeHi == 122

(* --------------------------- basic helpers ---------------------------- *)
Range(s) == {s[i] : i \in DOMAIN s}

Has(cols, c) == c \in Range(cols)

Without(cols, c) == SelectSeq(cols, LAMBDA x : x # c)

RECURSIVE Positions(_, _, _)
\* the positions i of 1..n (ascending) for which keep[i]
Positions(keep, i, n) ==
  IF i > n THEN <<>>
  ELSE (IF keep[i] THEN <<i>> ELSE <<>>) \o Positions(keep, i + 1, n)

RangeIndex(n) == [i \in 1..n |-> i - 1]

NaN == -999

NoFrame == [none |-> TRUE, cols |-> <<>>, index |-> <<>>, rows |-> <<>>]

NoSeries == [index |-> <<>>, rows |-> <<>>]

NoFile == [exists |-> FALSE, readable |-> FALSE, cols |-> <<>>, rows |-> <<>>]

CorruptFile == [exists |-> TRUE, readable |-> FALSE, cols |-> <<>>, rows |-> <<>>]

filename == "heart_failure_raw.csv"

(* ------------------------------ CSV I/O ------------------------------- *)
\* df.to_csv(path, index=False): header and rows, the index is not written
to_csv(d) == [exists |-> TRUE, readable |-> TRUE, cols |-> d.cols, rows |-> d.rows]

\* pd.read_csv(path): the rows of the file under a fresh RangeIndex
read_csv(f) ==
  [none |-> FALSE, cols |-> f.cols, index |-> RangeIndex(Len(f.rows)), rows |-> f.rows]

(* --------------------------- handle_outliers --------------------------- *)
\* the non-NaN values of a column, ascending (quantile skips NaN)
SortedValues(d, column) ==
  LET all == [i \in 1..Len(d.rows) |-> d.rows[i].v[column]]
  IN SortSeq(SelectSeq(all, LAMBDA x : x # NaN), LAMBDA a, b : a < b)

\* Series.quantile(k/4), linear interpolation, as [nan, q4] with q4 = 4*Q
quantile(d, column, k) ==
  LET s == SortedValues(d, column)
      n == Len(s)
      pos4 == (n - 1) * k
      lo == pos4 \div 4
      r == pos4 % 4
  IN IF n = 0 THEN [nan |-> TRUE, q4 |-> 0]
     ELSE [nan |-> FALSE,
           q4 |-> IF r = 0 THEN 4 * s[lo + 1]
                  ELSE 4 * s[lo + 1] + r * (s[lo + 2] - s[lo + 1])]

\* 8 * (Q1 - 1.5 * IQR)
lower_bound(Q1, Q3) == 2 * Q1.q4 - 3 * (Q3.q4 - Q1.q4)

\* 8 * (Q3 + 1.5 * IQR)
upper_bound(Q1, Q3) == 2 * Q3.q4 + 3 * (Q3.q4 - Q1.q4)

\* the mask with the comparisons strict: (df[column] > lower_bound) & (df[column] < upper_bound)
OutlierMaskStrict(d, column) ==
  LET Q1 == quantile(d, column, 1)
      Q3 == quantile(d, column, 3)
  IN [i \in 1..Len(d.rows) |->
        LET x == d.rows[i].v[column]
        IN /\ x # NaN
           /\ ~Q1.nan
           /\ ~Q3.nan
           /\ 8 * x > lower_bound(Q1, Q3)
           /\ 8 * x < upper_bound(Q1, Q3)]

\* the boolean mask (df[column] >= lower_bound) & (df[column] <= upper_bound)
OutlierMask(d, column) ==
  LET Q1 == quantile(d, column, 1)
      Q3 == quantile(d, column, 3)
  IN [i \in 1..Len(d.rows) |->
        LET x == d.rows[i].v[column]
        IN /\ x # NaN
           /\ ~Q1.nan
           /\ ~Q3.nan
           /\ 8 * x >= lower_bound(Q1, Q3)
           /\ 8 * x <= upper_bound(Q1, Q3)]

\* df[mask]: the selected rows with the index labels they had
BoolSelect(d, mask) ==
  LET p == Positions(mask, 1, Len(d.rows))
  IN [none |-> FALSE, cols |-> d.cols,
      index |-> [j \in 1..Len(p) |-> d.index[p[j]]],
      rows |-> [j \in 1..Len(p) |-> d.rows[p[j]]]]

\* DataFrame.reset_index(drop=True)
reset_index(d) == [d EXCEPT !.index = RangeIndex(Len(d.rows))]

handle_outliers(d, column) == reset_index(BoolSelect(d, OutlierMask(d, column)))

(* --------------------------- preprocess_data --------------------------- *)
bins == <<0, 60, 75, 120>>

labels == <<"Adult", "Senior", "Elderly">>

NoCategory == "NaN"

\* pd.cut with right=False: bin j is [bins[j], bins[j+1])
cut_left_closed(x) ==
  LET hits == {j \in 1..Len(labels) : x # NaN /\ bins[j] <= x /\ x < bins[j + 1]}
  IN IF hits = {} THEN NoCategory ELSE labels[CHOOSE j \in hits : TRUE]

\* pd.cut(x, bins, labels): bin j is (bins[j], bins[j+1]], right edge included;
\* a value in no bin, or NaN, gets no category
cut(x) ==
  LET hits == {j \in 1..Len(labels) : x # NaN /\ bins[j] < x /\ x <= bins[j + 1]}
  IN IF hits = {} THEN NoCategory ELSE labels[CHOOSE j \in hits : TRUE]

\* df[name] = vals: a new column goes last, an existing one is overwritten
SetColumn(d, name, vals) ==
  [d EXCEPT
     !.cols = IF Has(d.cols, name) THEN d.cols ELSE Append(d.cols, name),
     !.rows = [i \in 1..Len(d.rows) |->
                 [d.rows[i] EXCEPT !.v =
                    [c \in Range(d.cols) \cup {name} |->
                       IF c = name THEN vals[i] ELSE d.rows[i].v[c]]]]]

\* pd.cut(df['age'], bins=bins, labels=labels): the category of each row
cut_column(d) == [i \in 1..Len(d.rows) |-> cut(d.rows[i].v["age"])]

\* df.drop(columns=[name])
DropColumn(d, name) ==
  [d EXCEPT
     !.cols = Without(d.cols, name),
     !.rows = [i \in 1..Len(d.rows) |->
                 [d.rows[i] EXCEPT !.v =
                    [c \in Range(d.cols) \ {name} |-> d.rows[i].v[c]]]]]

DummyName(prefix, label) == prefix \o "_" \o label

\* get_dummies on a plain string column: only the values that occur get a column
DummyCategoriesObserved(d, name) ==
  SelectSeq(labels, LAMBDA l : \E i \in 1..Len(d.rows) : d.rows[i].v[name] = l)

\* the categories get_dummies makes a column for: all categories of the
\* categorical column, in category order, observed or not
DummyCategories(d, name) == labels

\* pd.get_dummies(df, columns=[name], prefix=prefix); indicators are 1 / 0
get_dummies(d, name, prefix) ==
  LET cats == DummyCategories(d, name)
      rest == Without(d.cols, name)
      dums == [j \in 1..Len(cats) |-> DummyName(prefix, cats[j])]
      CatOf(c) == cats[CHOOSE j \in 1..Len(cats) : dums[j] = c]
  IN [d EXCEPT
        !.cols = rest \o dums,
        !.rows = [i \in 1..Len(d.rows) |->
                    [d.rows[i] EXCEPT !.v =
                       [c \in Range(rest) \cup Range(dums) |->
                          IF c \in Range(rest) THEN d.rows[i].v[c]
                          ELSE IF d.rows[i].v[name] = CatOf(c) THEN 1 ELSE 0]]]]

\* df[name] as a Series
Column(d, name) ==
  [index |-> d.index,
   rows |-> [i \in 1..Len(d.rows) |-> [rid |-> d.rows[i].rid, val |-> d.rows[i].v[name]]]]

Raised(e) == [err |-> e, X |-> NoFrame, y |-> NoSeries]

\* lines 65-67
DropTime(d) == IF Has(d.cols, "time") THEN DropColumn(d, "time") ELSE d

\* lines 69-75 with the rows of no category dropped before the encoding
BinAndEncodeDropNa(d) ==
  LET b == SetColumn(d, "age_category", cut_column(d))
  IN get_dummies(BoolSelect(b, [i \in 1..Len(b.rows) |-> b.rows[i].v["age_category"] # NoCategory]),
                 "age_category", "age")

\* lines 69-75
BinAndEncode(d) ==
  get_dummies(SetColumn(d, "age_category", cut_column(d)), "age_category", "age")

\* the columns the body reads, in the order it reads them
RequiredColumns == <<"age", "serum_creatinine", "DEATH_EVENT">>

\* preprocess_data with the missing column swallowed: it returns empty results
preprocess_data_lenient(d) ==
  LET d1 == DropTime(d)
  IN IF \E j \in 1..Len(RequiredColumns) : ~Has(d1.cols, RequiredColumns[j])
     THEN Raised("")
     ELSE LET d4 == handle_outliers(BinAndEncode(d1), "serum_creatinine")
          IN [err |-> "", X |-> DropColumn(d4, "DEATH_EVENT"), y |-> Column(d4, "DEATH_EVENT")]

\* preprocess_data(df): [err, X, y]; err = "KeyError" when a column it reads is absent
preprocess_data(d) ==
  LET d1 == DropTime(d)
  IN IF \E j \in 1..Len(RequiredColumns) : ~Has(d1.cols, RequiredColumns[j])
     THEN Raised("KeyError")
     ELSE LET d4 == handle_outliers(BinAndEncode(d1), "serum_creatinine")
          IN [err |-> "", X |-> DropColumn(d4, "DEATH_EVENT"), y |-> Column(d4, "DEATH_EVENT")]

(* -------------------------- save_prepared_data ------------------------- *)
RECURSIVE SumSeq(_)
SumSeq(s) == IF s = <<>> THEN 0 ELSE Head(s) + SumSeq(Tail(s))

\* ceil(0.2 * n) rows go to the test subset, the rest to the training subset
n_test(n) == (n + 4) \div 5

n_train(n) == n - n_test(n)

Classes(ys) == {ys.rows[i].val : i \in 1..Len(ys.rows)}

ClassCount(ys, c) == Cardinality({i \in 1..Len(ys.rows) : ys.rows[i].val = c})

\* train_test_split(..., stratify=y) raises ValueError on these inputs
SplitError(ys) ==
  LET n == Len(ys.rows)
  IN \/ n = 0
     \/ n_train(n) = 0
     \/ \E c \in Classes(ys) : ClassCount(ys, c) < 2
     \/ n_train(n) < Cardinality(Classes(ys))
     \/ n_test(n) < Cardinality(Classes(ys))

\* the orderings of a set of positions
Orderings(S) ==
  LET k == Cardinality(S)
  IN {f \in [1..k -> S] : \A i, j \in 1..k : i # j => f[i] # f[j]}

\* The splits train_test_split(X, y, test_size=0.2, random_state=42, stratify=y)
\* can return: they depend on y alone (row count and classes), never on X.  Each
\* class gives the training subset its share of n_train rounded down or up; the
\* rows chosen and the order of each subset come from the seeded generator and
\* are left open here.
Splits(ys) ==
  LET n == Len(ys.rows)
      Stratified(T) ==
        \A c \in Classes(ys) :
          LET cnt == ClassCount(ys, c)
              got == Cardinality({i \in T : ys.rows[i].val = c})
          IN /\ got >= (cnt * n_train(n)) \div n
             /\ got <= (cnt * n_train(n) + n - 1) \div n
  IN UNION {{[train |-> tr, test |-> te] : tr \in Orderings(T), te \in Orderings((1..n) \ T)} :
              T \in {S \in SUBSET (1..n) : Cardinality(S) = n_train(n) /\ Stratified(S)}}

NoSplit == [train |-> <<>>, test |-> <<>>]

\* X.iloc[positions] / y.iloc[positions]: the rows keep their index labels
Take(d, positions) ==
  [d EXCEPT !.index = [j \in 1..Len(positions) |-> d.index[positions[j]]],
            !.rows = [j \in 1..Len(positions) |-> d.rows[positions[j]]]]

\* the scaler fitted on all rows of X
FitRowsAll(Xd, s) == Xd.rows

\* the rows StandardScaler is fitted on: the training subset
FitRows(Xd, s) == Take(Xd, s.train).rows

\* the count n, sum s1 and sum of squares s2 of the non-NaN values of column c
\* (mean = s1/n, variance = (n*s2 - s1^2)/n^2)
column_stats(rows, c) ==
  LET xs == SelectSeq([i \in 1..Len(rows) |-> rows[i].v[c]], LAMBDA x : x # NaN)
  IN [n |-> Len(xs), s1 |-> SumSeq(xs), s2 |-> SumSeq([i \in 1..Len(xs) |-> xs[i] * xs[i]])]

RECURSIVE fit(_, _)
\* StandardScaler.fit: the statistics of each column, in column order
fit(rows, cols) ==
  IF cols = <<>> THEN <<>> ELSE <<column_stats(rows, Head(cols))>> \o fit(rows, Tail(cols))

NaNScaled == [num |-> NaN, den2 |-> 0]

\* (x - mean) / scale as num / sqrt(den2); a zero variance gives scale 1
scale_value(p, x) ==
  IF x = NaN \/ p.n = 0 THEN NaNScaled
  ELSE [num |-> p.n * x - p.s1,
        den2 |-> IF p.n * p.s2 - p.s1 * p.s1 = 0 THEN p.n * p.n
                 ELSE p.n * p.s2 - p.s1 * p.s1]

Find(index, l) ==
  IF \E i \in 1..Len(index) : index[i] = l
  THEN CHOOSE i \in 1..Len(index) : index[i] = l ELSE 0

\* pd.DataFrame(scaler.transform(part), columns=columns): a fresh RangeIndex
transform(scaler, part) ==
  [none |-> FALSE, cols |-> part.cols, index |-> RangeIndex(Len(part.rows)),
   rows |-> [i \in 1..Len(part.rows) |->
               [part.rows[i] EXCEPT !.v =
                  [c \in Range(part.cols) |->
                     scale_value(scaler[Find(part.cols, c)], part.rows[i].v[c])]]]]

\* the target entering pd.concat with the index labels of the split
TargetKeepIndex(s) == s

\* the target as it enters pd.concat: y_part.reset_index(drop=True)
TargetOf(s) == reset_index(s)

\* pd.concat([F, s], axis=1): an outer join on the index labels; yrid is the
\* ghost identity of the record the target value came from
concat(F, s, name) ==
  LET idx == F.index \o SelectSeq(s.index, LAMBDA l : Find(F.index, l) = 0)
  IN [none |-> FALSE, cols |-> Append(F.cols, name), index |-> idx,
      rows |-> [k \in 1..Len(idx) |->
                  LET i == Find(F.index, idx[k])
                      j == Find(s.index, idx[k])
                  IN [rid |-> IF i = 0 THEN NaN ELSE F.rows[i].rid,
                      yrid |-> IF j = 0 THEN NaN ELSE s.rows[j].rid,
                      v |-> [c \in Range(F.cols) \cup {name} |->
                               IF c = name
                               THEN (IF j = 0 THEN NaN ELSE s.rows[j].val)
                               ELSE (IF i = 0 THEN NaNScaled ELSE F.rows[i].v[c])]]]]

\* lines 93-107 for one subset (positions) of the split s
prepared_set(Xd, ys, s, positions) ==
  concat(transform(fit(FitRows(Xd, s), Xd.cols), Take(Xd, positions)),
         TargetOf(Take(ys, positions)), "DEATH_EVENT")

train_set(Xd, ys, s) == prepared_set(Xd, ys, s, s.train)

test_set(Xd, ys, s) == prepared_set(Xd, ys, s, s.test)

(* ------------------------------ load_data ------------------------------ *)
Outcome(ret, fs, fetched, failure, raised) ==
  [ret |-> ret, fs |-> fs, fetched |-> fetched, failure |-> failure, raised |-> raised]

\* lines 16-24: the local file exists; the read may fail (always, when the
\* file is unreadable), and a failed read is caught
LoadLocal(fs) ==
  {Outcome(NoFrame, fs, FALSE, "read", FALSE)}
    \cup (IF fs.readable THEN {Outcome(read_csv(fs), fs, FALSE, "", FALSE)} ELSE {})

\* lines 25-37 with the cache write outside the try: its failure propagates
LoadRemoteUnguarded(fs, remote) ==
  {Outcome(NoFrame, fs, TRUE, "fetch", FALSE),
   Outcome(NoFrame, fs, TRUE, "save", TRUE),
   Outcome(NoFrame, CorruptFile, TRUE, "save", TRUE),
   Outcome(read_csv(remote), to_csv(read_csv(remote)), TRUE, "", FALSE)}

\* lines 25-37 without line 32: the fetched data is returned but not cached
LoadRemoteNoCache(fs, remote) ==
  {Outcome(NoFrame, fs, TRUE, "fetch", FALSE),
   Outcome(read_csv(remote), fs, TRUE, "", FALSE)}

\* lines 25-37: the local file is absent; fetch, write the cache copy, return.
\* A failed write may or may not leave a partial file behind.
LoadRemote(fs, remote) ==
  {Outcome(NoFrame, fs, TRUE, "fetch", FALSE),
   Outcome(NoFrame, fs, TRUE, "save", FALSE),
   Outcome(NoFrame, CorruptFile, TRUE, "save", FALSE),
   Outcome(read_csv(remote), to_csv(read_csv(remote)), TRUE, "", FALSE)}

\* load_data(): the outcomes of one call, given the local file and what the
\* remote URL serves
load_data(fs, remote) == IF fs.exists THEN LoadLocal(fs) ELSE LoadRemote(fs, remote)

(* -------------------------------- __main__ ----------------------------- *)
\* line 121 without the None test
ShouldProcessAlways(d) == TRUE

\* line 121: if df is not None
ShouldProcess(d) == ~d.none

\* line 119: df = load_data()
LoadData ==
  /\ pc = "start"
  /\ \E o \in load_data(fsRaw, raw) :
       /\ df' = o.ret
       /\ fsRaw' = o.fs
       /\ pc' = IF o.raised THEN "crashed" ELSE "loaded"
       /\ hist' = Append(hist, [existed |-> fsRaw.exists, fetched |-> o.fetched,
                                failure |-> o.failure, raised |-> o.raised,
                                none |-> o.ret.none, cached |-> o.fs.exists])
  /\ trace' = Append(trace, "Loader")
  /\ UNCHANGED <<raw, fsTrain, fsTest, df_clean, X, y, split, written>>

\* line 72 assigns the new column on the caller's frame when line 67 did not
\* rebind df to a copy
CallerFrameAfter(d) ==
  IF Has(d.cols, "time") \/ ~Has(d.cols, "age") THEN d
  ELSE SetColumn(d, "age_category", cut_column(d))

\* line 122: X, y = preprocess_data(df)
Preprocess ==
  /\ pc = "loaded"
  /\ ShouldProcess(df)
  /\ LET r == preprocess_data(df)
     IN /\ pc' = IF r.err = "" THEN "transformed" ELSE "crashed"
        /\ X' = r.X
        /\ y' = r.y
  /\ df' = CallerFrameAfter(df)
  /\ trace' = Append(trace, "Transformer")
  /\ UNCHANGED <<raw, fsRaw, fsTrain, fsTest, df_clean, split, written, hist>>

\* line 123: save_prepared_data(X, y); train_test_split raises
SaveSplitFails ==
  /\ pc = "transformed"
  /\ SplitError(y)
  /\ pc' = "crashed"
  /\ trace' = Append(trace, "Persister")
  /\ UNCHANGED <<raw, fsRaw, fsTrain, fsTest, df, df_clean, X, y, split, written, hist>>

\* line 123: save_prepared_data(X, y) returns
Save ==
  /\ pc = "transformed"
  /\ ~SplitError(y)
  /\ \E s \in Splits(y) :
       /\ split' = s
       /\ fsTrain' = to_csv(train_set(X, y, s))
       /\ fsTest' = to_csv(test_set(X, y, s))
  /\ written' = {"data_train.csv", "data_test.csv"}
  /\ pc' = "saved"
  /\ trace' = Append(trace, "Persister")
  /\ UNCHANGED <<raw, fsRaw, df, df_clean, X, y, hist>>

\* line 123: save_prepared_data(X, y); a to_csv of lines 110-111 raises, and
\* may leave a partial file behind
SaveWriteFails ==
  /\ pc = "transformed"
  /\ ~SplitError(y)
  /\ \/ /\ fsTrain' \in {fsTrain, CorruptFile}
        /\ fsTest' = fsTest
        /\ written' = IF fsTrain' = fsTrain THEN {} ELSE {"data_train.csv"}
     \/ /\ \E s \in Splits(y) : fsTrain' = to_csv(train_set(X, y, s))
        /\ fsTest' \in {fsTest, CorruptFile}
        /\ written' = {"data_train.csv"} \cup
                        (IF fsTest' = fsTest THEN {} ELSE {"data_test.csv"})
  /\ pc' = "crashed"
  /\ trace' = Append(trace, "Persister")
  /\ UNCHANGED <<raw, fsRaw, df, df_clean, X, y, split, hist>>

\* line 125: print("--- SELESAI ---")
Finish ==
  /\ \/ pc = "saved"
     \/ pc = "loaded" /\ ~ShouldProcess(df)
  /\ pc' = "done"
  /\ UNCHANGED <<raw, fsRaw, fsTrain, fsTest, df, df_clean, X, y, split, trace, written, hist>>

\* the script is started again: a new process over the same working directory
NextRun ==
  /\ pc \in {"done", "crashed"}
  /\ Len(hist) < MaxRuns
  /\ pc' = "start"
  /\ df' = NoFrame
  /\ X' = NoFrame
  /\ y' = NoSeries
  /\ split' = NoSplit
  /\ trace' = <<>>
  /\ written' = {}
  /\ UNCHANGED <<raw, fsRaw, fsTrain, fsTest, df_clean, hist>>

\* a call handle_outliers(df, 'serum_creatinine') on its own
CallHandleOutliers ==
  /\ pc = "call"
  /\ df_clean' = handle_outliers(df, "serum_creatinine")
  /\ pc' = "ret"
  /\ UNCHANGED <<raw, fsRaw, fsTrain, fsTest, df, X, y, split, trace, written, hist>>

(* ------------------------------- inputs -------------------------------- *)
AgePool == <<60, 61, 75, 76, 45, 120, 121, 0>>

ColumnSets ==
  {<<"age", "serum_creatinine", "time", "DEATH_EVENT">>,
   <<"age", "serum_creatinine", "DEATH_EVENT">>,
   <<"serum_creatinine", "time", "DEATH_EVENT">>,
   <<"age", "serum_creatinine", "time">>,
   <<"age", "time", "DEATH_EVENT">>}

\* a raw CSV of n records: the first k died, record o (if any) has an extreme
\* serum_creatinine
RawFile(cols, n, k, o) ==
  [exists |-> TRUE, readable |-> TRUE, cols |-> cols,
   rows |-> [i \in 1..n |->
               [rid |-> i,
                v |-> [c \in Range(cols) |->
                         CASE c = "age" -> AgePool[((i - 1) % Len(AgePool)) + 1]
                           [] c = "serum_creatinine" -> IF i = o THEN 9 ELSE 1 + (i % 2)
                           [] c = "time" -> 10 * i
                           [] OTHER -> IF i <= k THEN 1 ELSE 0]]]]

DataSets(maxn) ==
  UNION {{RawFile(cols, n, k, o) : cols \in ColumnSets, k \in 0..n, o \in {0, n}} : n \in 0..maxn}

Idle ==
  /\ fsTrain = NoFile
  /\ fsTest = NoFile
  /\ df_clean = NoFrame
  /\ X = NoFrame
  /\ y = NoSeries
  /\ split = NoSplit
  /\ written = {}

\* the script is started in a working directory whose raw file is absent,
\* unreadable or a copy of what the remote serves
Init ==
  /\ pc = "start"
  /\ raw \in DataSets(RunRows)
  /\ fsRaw \in {NoFile, CorruptFile, raw}
  /\ df = NoFrame
  /\ trace = <<>>
  /\ hist = <<>>
  /\ Idle

Next == LoadData \/ Preprocess \/ SaveSplitFails \/ Save \/ SaveWriteFails \/ Finish \/ NextRun

Spec == Init /\ [][Next]_vars

LocalLoad ==
  [existed |-> TRUE, fetched |-> FALSE, failure |-> "", raised |-> FALSE,
   none |-> FALSE, cached |-> TRUE]

\* the state after a successful local load of a larger dataset; the data path
\* is followed with a file system that takes the two output files
InitData ==
  /\ pc = "loaded"
  /\ raw \in DataSets(MaxRows)
  /\ fsRaw = raw
  /\ df = read_csv(raw)
  /\ trace = <<"Loader">>
  /\ hist = <<LocalLoad>>
  /\ Idle

NextData == Preprocess \/ SaveSplitFails \/ Save \/ Finish

SpecData == InitData /\ [][NextData]_vars

(* ----------------- handle_outliers / age bucketing alone ---------------- *)
OutlierValues == {0, 1, 2, 7, NaN}

\* a frame of the values xs whose index is a RangeIndex or carries other labels
OutlierFrame(xs, shift) ==
  [none |-> FALSE, cols |-> <<"serum_creatinine", "DEATH_EVENT">>,
   index |-> [i \in 1..Len(xs) |-> IF shift THEN 2 * i + 1 ELSE i - 1],
   rows |-> [i \in 1..Len(xs) |->
               [rid |-> i,
                v |-> [c \in {"serum_creatinine", "DEATH_EVENT"} |->
                         IF c = "serum_creatinine" THEN xs[i] ELSE 0]]]]

InitOutliers ==
  /\ pc = "call"
  /\ \E n \in 0..MaxLen : \E xs \in [1..n -> OutlierValues] : \E shift \in BOOLEAN :
       df = OutlierFrame(xs, shift)
  /\ raw = NoFile
  /\ fsRaw = NoFile
  /\ trace = <<>>
  /\ hist = <<>>
  /\ Idle

NextOutliers == CallHandleOutliers

SpecOutliers == InitOutliers /\ [][NextOutliers]_vars

Ages == ((0 - 2)..AgeHi) \cup {NaN}

\* one record of the given age, read from the local file
InitAge ==
  /\ pc = "loaded"
  /\ \E a \in Ages :
       raw = [RawFile(<<"age", "serum_creatinine", "time", "DEATH_EVENT">>, 1, 1, 0)
                EXCEPT !.rows[1].v["age"] = a]
  /\ fsRaw = raw
  /\ df = read_csv(raw)
  /\ trace = <<"Loader">>
  /\ hist = <<LocalLoad>>
  /\ Idle

NextAge == Preprocess

SpecAge == InitAge /\ [][NextAge]_vars

(* ================================ claims =============================== *)
Stages == <<"Loader", "Transformer", "Persister">>

IsPrefix(a, b) == Len(a) <= Len(b) /\ \A i \in 1..Len(a) : a[i] = b[i]

LastLoad == hist[Len(hist)]

\* C1: load_data never propagates an exception: every call returns, and a
\* failed local read, a failed remote fetch or a failed write of the cache copy
\* after a successful fetch gives None (and only a failure gives None).
C1_LoadNeverRaises ==
  \A i \in 1..Len(hist) :
    /\ ~hist[i].raised
    /\ hist[i].failure \in {"read", "fetch", "save"} <=> hist[i].none

C1_Witness ==
  /\ pc = "loaded"
  /\ LastLoad.failure = "save"
  /\ LastLoad.none
  /\ fsRaw = CorruptFile

\* C2: the stages run in the order Loader, Transformer, Persister, each at most
\* once per run; when the Loader returned None only the Loader has run, neither
\* output file is written, and the only step the run can take, and can always
\* take, is its normal completion.
C2_StagesInOrder ==
  /\ [](IsPrefix(trace, Stages))
  /\ [](df.none /\ pc # "start" =>
          /\ trace = <<"Loader">>
          /\ written = {}
          /\ pc \in {"loaded", "done"}
          /\ pc = "loaded" => ENABLED Finish)
  /\ [][df.none => fsTrain' = fsTrain /\ fsTest' = fsTest]_vars
  /\ [][df.none /\ pc = "loaded" => pc' = "done"]_vars

C2_Witness ==
  /\ pc = "done"
  /\ df.none
  /\ ~LastLoad.existed
  /\ LastLoad.failure = "fetch"
  /\ trace = <<"Loader">>
  /\ fsTrain = NoFile
  /\ fsTest = NoFile

\* C3: the remote fetch is attempted exactly when the local file is absent (an
\* existing file that cannot be read gives None with no remote attempt); a run
\* that returns remotely fetched data leaves the local file in place, and the
\* next run reads it and fetches nothing.
C3_RemoteOnlyWhenAbsent ==
  \A i \in 1..Len(hist) :
    /\ hist[i].fetched <=> ~hist[i].existed
    /\ hist[i].failure = "read" => hist[i].none /\ ~hist[i].fetched
    /\ hist[i].fetched /\ ~hist[i].none =>
         /\ hist[i].cached
         /\ i = Len(hist) => fsRaw.exists /\ fsRaw.readable /\ fsRaw.rows = raw.rows
         /\ i < Len(hist) => hist[i + 1].existed /\ ~hist[i + 1].fetched

C3_Witness ==
  /\ Len(hist) = 2
  /\ hist[1].fetched
  /\ ~hist[1].none
  /\ hist[2].existed
  /\ ~hist[2].fetched
  /\ ~hist[2].none
  /\ Len(raw.rows) > 0

MissingRequired(cols) == ~Has(cols, "age") \/ ~Has(cols, "DEATH_EVENT")

\* C10: when the loaded dataset lacks age or DEATH_EVENT the Transformer fails
\* and nothing catches it: the run ends in the Transformer stage, the Persister
\* never runs, no output file is written and the completion step is not reached.
C10_MissingColumnCrashes ==
  ~df.none /\ MissingRequired(df.cols) =>
    /\ pc \in {"loaded", "crashed"}
    /\ pc = "loaded" => trace = <<"Loader">>
    /\ pc = "crashed" => trace = <<"Loader", "Transformer">>
    /\ written = {}
    /\ fsTrain = NoFile
    /\ fsTest = NoFile
    /\ X = NoFrame

C10_Witness ==
  /\ pc = "crashed"
  /\ ~df.none
  /\ ~Has(df.cols, "age")
  /\ Has(df.cols, "DEATH_EVENT")
  /\ Len(df.rows) > 0
  /\ trace = <<"Loader", "Transformer">>

(* quartiles by rank, for C4: the k-th smallest (k from 0) non-NaN value of
   the column is the value with at most k values below it and more than k
   values at or below it *)
Present(d, c) == {i \in 1..Len(d.rows) : d.rows[i].v[c] # NaN}

Kth(d, c, k) ==
  CHOOSE x \in {d.rows[i].v[c] : i \in Present(d, c)} :
    /\ Cardinality({i \in Present(d, c) : d.rows[i].v[c] < x}) <= k
    /\ Cardinality({i \in Present(d, c) : d.rows[i].v[c] <= x}) > k

\* 4 * (the q/4 quantile): the two neighbouring ranks weighted by the fraction
Quartile4(d, c, q) ==
  LET pos4 == (Cardinality(Present(d, c)) - 1) * q
      lo == pos4 \div 4
      r == pos4 % 4
  IN (4 - r) * Kth(d, c, lo) + (IF r = 0 THEN 0 ELSE r * Kth(d, c, lo + 1))

\* Q1 - 1.5*(Q3 - Q1) <= x <= Q3 + 1.5*(Q3 - Q1), all times 8
WithinBounds(d, c, x) ==
  /\ x # NaN
  /\ Present(d, c) # {}
  /\ 8 * x + 3 * Quartile4(d, c, 3) >= 5 * Quartile4(d, c, 1)
  /\ 8 * x + 3 * Quartile4(d, c, 1) <= 5 * Quartile4(d, c, 3)

\* C4: handle_outliers returns exactly the rows whose value lies in
\* [Q1 - 1.5*IQR, Q3 + 1.5*IQR] (bounds included, quartiles of the input
\* column), in their input order, under the index 0..n-1, and leaves its
\* input as it was.
C4_OutliersExact ==
  /\ [](pc = "ret" =>
          /\ ~df_clean.none
          /\ df_clean.cols = df.cols
          /\ df_clean.rows =
               SelectSeq(df.rows, LAMBDA r : WithinBounds(df, "serum_creatinine", r.v["serum_creatinine"]))
          /\ df_clean.index = RangeIndex(Len(df_clean.rows)))
  /\ [][pc = "call" => df' = df]_vars

C4_Witness ==
  /\ pc = "ret"
  /\ Len(df_clean.rows) >= 2
  /\ Len(df_clean.rows) < Len(df.rows)
  /\ \E i \in 1..Len(df.rows) :
       /\ df.rows[i].v["serum_creatinine"] # NaN
       /\ \A j \in 1..Len(df_clean.rows) : df_clean.rows[j].rid # df.rows[i].rid
  /\ df.index # RangeIndex(Len(df.rows))
  /\ df_clean.rows[1].rid # 1

TheAge == raw.rows[1].v["age"]

Indicators(row) == <<row.v["age_Adult"], row.v["age_Senior"], row.v["age_Elderly"]>>

\* C5: an age of exactly 60 is bucketed Adult and an age of 61 Senior.
C5_SixtyIsAdult ==
  pc = "transformed" =>
    /\ TheAge = 60 => Len(X.rows) = 1 /\ Indicators(X.rows[1]) = <<1, 0, 0>>
    /\ TheAge = 61 => Len(X.rows) = 1 /\ Indicators(X.rows[1]) = <<0, 1, 0>>

C5_Witness ==
  /\ pc = "transformed"
  /\ TheAge = 60
  /\ X.rows[1].v["age"] = 60
  /\ X.rows[1].v["age_Adult"] = 1

\* C6 as stated: [0,60) -> Adult, [60,75) -> Senior, [75,120] -> Elderly, any
\* other value no bucket, the row kept.
C6_HalfOpenLeftClosed ==
  pc = "transformed" =>
    /\ Len(X.rows) = 1
    /\ Indicators(X.rows[1]) =
         IF TheAge # NaN /\ 0 <= TheAge /\ TheAge < 60 THEN <<1, 0, 0>>
         ELSE IF TheAge # NaN /\ 60 <= TheAge /\ TheAge < 75 THEN <<0, 1, 0>>
         ELSE IF TheAge # NaN /\ 75 <= TheAge /\ TheAge <= 120 THEN <<0, 0, 1>>
         ELSE <<0, 0, 0>>

\* C6 amended: (0,60] -> Adult, (60,75] -> Senior, (75,120] -> Elderly; any
\* other value (0 and below, above 120, missing) gets no bucket, all three
\* indicators unset, and its row is kept.
C6_BucketsRightClosed ==
  pc = "transformed" =>
    /\ Len(X.rows) = 1
    /\ X.rows[1].v["age"] = TheAge
    /\ Indicators(X.rows[1]) =
         IF TheAge # NaN /\ 0 < TheAge /\ TheAge <= 60 THEN <<1, 0, 0>>
         ELSE IF TheAge # NaN /\ 60 < TheAge /\ TheAge <= 75 THEN <<0, 1, 0>>
         ELSE IF TheAge # NaN /\ 75 < TheAge /\ TheAge <= 120 THEN <<0, 0, 1>>
         ELSE <<0, 0, 0>>

C6_Witness ==
  /\ pc = "transformed"
  /\ TheAge = 0
  /\ Len(X.rows) = 1
  /\ Indicators(X.rows[1]) = <<0, 0, 0>>

AgeIndicators == {"age_Adult", "age_Senior", "age_Elderly"}

Once(cols, c) == Cardinality({i \in 1..Len(cols) : cols[i] = c}) = 1

\* C7: for every valid input, with or without a time column, X and both files
\* have no time and no age_category column, X has no DEATH_EVENT column, and
\* the age bucket appears as exactly the three columns age_Adult, age_Senior,
\* age_Elderly whichever buckets occur in the data.
C7_OutputColumns ==
  /\ pc \in {"transformed", "saved", "done"} =>
       /\ Range(X.cols) \cap {"time", "age_category", "DEATH_EVENT"} = {}
       /\ Range(X.cols) \ Range(raw.cols) = AgeIndicators
       /\ \A c \in AgeIndicators : Once(X.cols, c)
       /\ \A i \in 1..Len(X.rows) : DOMAIN X.rows[i].v = Range(X.cols)
  /\ pc \in {"saved", "done"} =>
       \A f \in {fsTrain, fsTest} :
         /\ f.exists
         /\ Range(f.cols) \cap {"time", "age_category"} = {}
         /\ Range(f.cols) \ Range(raw.cols) = AgeIndicators
         /\ \A c \in AgeIndicators : Once(f.cols, c)
         /\ \A i \in 1..Len(f.rows) : DOMAIN f.rows[i].v = Range(f.cols)

C7_Witness ==
  /\ pc = "saved"
  /\ Has(raw.cols, "time")
  /\ Len(X.rows) >= 2
  /\ \A i \in 1..Len(X.rows) : X.rows[i].v["age_Elderly"] = 0
  /\ Has(fsTrain.cols, "age_Elderly")

\* the row of X that holds record rid
RowOf(rid) == X.rows[CHOOSE i \in 1..Len(X.rows) : X.rows[i].rid = rid]

\* C8: X and y have the same rows in the same order; the two files partition
\* the rows of X; in each written row the target is the DEATH_EVENT of the
\* record whose (scaled) features the row holds.
C8_RowsStayAligned ==
  /\ pc \in {"transformed", "saved", "done"} =>
       /\ Len(X.rows) = Len(y.rows)
       /\ X.index = y.index
       /\ \A i \in 1..Len(X.rows) :
            /\ X.rows[i].rid = y.rows[i].rid
            /\ y.rows[i].val = raw.rows[X.rows[i].rid].v["DEATH_EVENT"]
  /\ pc = "saved" =>
       LET all == fsTrain.rows \o fsTest.rows
           scaler == fit(Take(X, split.train).rows, X.cols)
       IN /\ Len(fsTrain.rows) + Len(fsTest.rows) = Len(X.rows)
          /\ \A i \in 1..Len(X.rows) :
               Cardinality({j \in 1..Len(all) : all[j].rid = X.rows[i].rid}) = 1
          /\ \A j \in 1..Len(all) :
               /\ all[j].yrid = all[j].rid
               /\ all[j].v["DEATH_EVENT"] = raw.rows[all[j].rid].v["DEATH_EVENT"]
               /\ \A c \in Range(X.cols) :
                    all[j].v[c] = scale_value(scaler[Find(X.cols, c)], RowOf(all[j].rid).v[c])

C8_Witness ==
  /\ pc = "saved"
  /\ Len(split.train) >= 2
  /\ split.train[1] > split.train[2]
  /\ \E i, j \in 1..Len(fsTrain.rows) :
       fsTrain.rows[i].v["DEATH_EVENT"] # fsTrain.rows[j].v["DEATH_EVENT"]
  /\ \E i, j \in 1..Len(fsTest.rows) :
       fsTest.rows[i].v["DEATH_EVENT"] # fsTest.rows[j].v["DEATH_EVENT"]

AltValues == {7}

\* X with every feature value of the rows at positions P replaced by a
Variant(P, a) ==
  [X EXCEPT !.rows = [i \in 1..Len(X.rows) |->
                        IF i \in P
                        THEN [X.rows[i] EXCEPT !.v = [c \in Range(X.cols) |-> a]]
                        ELSE X.rows[i]]]

TestVariants ==
  {Variant(P, a) : P \in SUBSET Range(split.test) \ {{}}, a \in AltValues}

\* C9: the scaling parameters come from the training subset alone: a run whose
\* X differs only in feature values of rows that fall in the test subset
\* writes the same data_train.csv.
C9_NoTestLeakage ==
  pc = "saved" =>
    \A V \in TestVariants : to_csv(train_set(V, y, split)) = fsTrain

C9_Witness ==
  /\ pc = "saved"
  /\ Len(split.test) >= 2
  /\ \E V \in TestVariants :
       /\ V # X
       /\ to_csv(test_set(V, y, split)) # fsTest
       /\ to_csv(train_set(V, y, split)) = fsTrain
  /\ \E i \in 1..Len(fsTrain.rows) : fsTrain.rows[i].v["age"].num # 0

====
